---- MODULE Spec2Model ----
(***************************************************************************)
(* Model of web/extension/webpack.config.js: the exported configuration   *)
(* function (env, argv) => config, called by a hosting build tool that    *)
(* afterwards executes the returned configuration (its two plugins and    *)
(* the emission of the bundles into output.path).                         *)
(***************************************************************************)
EXTENDS Integers, Sequences, FiniteSets, TLC

\* Number of times the configuration function is called in one behaviour.
MaxCalls == 2

VARIABLES dirname, fs, calls, pc, env, argv, cwd, mode, console, ret,
          hooks, toolchain, deletions, results

vars == <<dirname, fs, calls, pc, env, argv, cwd, mode, console, ret,
          hooks, toolchain, deletions, results>>

----------------------------------------------------------------------------
(* JavaScript values *)

Undefined == [t |-> "undefined", v |-> ""]
Str(s) == [t |-> "string", v |-> s]

\* The values argv.mode takes: absent, the empty string, mode names.
ModeValues ==
    {Undefined, Str(""), Str("development"), Str("Staging")}

NoArgv(t) == [t |-> t, mode |-> Undefined, watch |-> FALSE]
Obj(m, w) == [t |-> "object", mode |-> m, watch |-> w]

\* The values of the second parameter: undefined, null, or an options object
\* with an optional mode and one other field.
ArgvValues ==
    {NoArgv("undefined"), NoArgv("null")}
        \cup {Obj(m, FALSE) : m \in ModeValues}
        \cup {Obj(Str("development"), TRUE)}

\* The values of the first parameter (never read by the function).
EnvValues == {"undefined", "{production:true}"}

\* ToBoolean, as the `if` of the function applies it.
Truthy(val) ==
    \/ val.t = "object"
    \/ val.t = "string" /\ val.v # ""

----------------------------------------------------------------------------
(* Paths and path.resolve *)

Abs(segs) == [abs |-> TRUE, segs |-> segs]
Rel(segs) == [abs |-> FALSE, segs |-> segs]

\* Directories the configuration file may live in.
Dirnames == {Abs(<<"repo", "web", "extension">>), Abs(<<"ext">>)}

\* Working directories of the build process.
Cwds == {Abs(<<"repo", "web", "extension">>), Abs(<<"tmp">>)}

RECURSIVE Normalize(_, _)
\* Drops "." segments and resolves ".." against the segments before it.
Normalize(segs, acc) ==
    IF segs = <<>> THEN acc
    ELSE IF Head(segs) = "." THEN Normalize(Tail(segs), acc)
    ELSE IF Head(segs) = ".."
         THEN Normalize(Tail(segs),
                        IF acc = <<>> THEN acc
                        ELSE SubSeq(acc, 1, Len(acc) - 1))
    ELSE Normalize(Tail(segs), Append(acc, Head(segs)))

RECURSIVE ResolveFrom(_, _, _)
\* Walks the arguments right to left, prepending each one, until the
\* accumulated path is absolute.
ResolveFrom(paths, i, acc) ==
    IF acc.abs THEN acc
    ELSE IF i = 0 THEN acc
    ELSE ResolveFrom(paths, i - 1,
                     [abs |-> paths[i].abs, segs |-> paths[i].segs \o acc.segs])

\* path.resolve(...paths) in a process whose working directory is wd.
PathResolve(wd, paths) ==
    LET r == ResolveFrom(paths, Len(paths), Rel(<<>>))
        full == IF r.abs THEN r.segs ELSE wd.segs \o r.segs
    IN  Abs(Normalize(full, <<>>))

----------------------------------------------------------------------------
(* The configuration function, statement by statement *)

DefaultMode_Development == "development"

DefaultMode_Prod == "prod"

\* let mode = "production";
DefaultMode == "production"

ModeAccessEvaluated_Unguarded(a) == TRUE

\* `argv && argv.mode`: the right operand of && is evaluated only when the
\* left one is truthy.
ModeAccessEvaluated(a) == Truthy(a)

\* Reading a property of undefined or null raises a TypeError.
ModeAccessThrows(a) ==
    ModeAccessEvaluated(a) /\ a.t \in {"undefined", "null"}

Lower(s) == IF s = "Staging" THEN "staging" ELSE s

SelectedMode_Lowered(e, a, m) ==
    IF Truthy(a) /\ Truthy(a.mode) THEN Lower(a.mode.v) ELSE m

SelectedMode_Env(e, a, m) ==
    IF e = "{production:true}" THEN "production"
    ELSE IF Truthy(a) /\ Truthy(a.mode) THEN a.mode.v ELSE m

\* if (argv && argv.mode) { mode = argv.mode; }
SelectedMode(e, a, m) ==
    IF Truthy(a) /\ Truthy(a.mode) THEN a.mode.v ELSE m

\* The template literal `Building ${mode}...`
Message(m) == "Building " \o m \o "..."

Entry_FromCwd(wd) ==
    [ruffle |-> PathResolve(wd, <<Rel(<<"js", "index.js">>)>>),
     popup |-> PathResolve(wd, <<Rel(<<"js", "popup.js">>)>>)]

\* entry: { "ruffle": ..., "popup": ... }
Entry(wd) ==
    [ruffle |-> PathResolve(wd, <<dirname, Rel(<<"js", "index.js">>)>>),
     popup |-> PathResolve(wd, <<dirname, Rel(<<"js", "popup.js">>)>>)]

Output_PerMode(wd) ==
    [path |-> PathResolve(wd, <<dirname, Rel(<<"build", mode>>)>>),
     filename |-> "[name].js",
     chunkFilename |-> "core.ruffle.js",
     jsonpFunction |-> "RufflePlayerExtensionLoader"]

\* output: { path, filename, chunkFilename, jsonpFunction }
Output(wd) ==
    [path |-> PathResolve(wd, <<dirname, Rel(<<"build", "dist">>)>>),
     filename |-> "[name].js",
     chunkFilename |-> "core.ruffle.js",
     jsonpFunction |-> "RufflePlayerExtensionLoader"]

\* new CleanWebpackPlugin(): a plugin object constructed without options.
CleanWebpackPlugin == [name |-> "CleanWebpackPlugin", options |-> <<>>]

\* new WasmPackPlugin(options): a plugin object holding its options.
WasmPackPlugin(options) == [name |-> "WasmPackPlugin", options |-> <<options>>]

Plugins_FixedForceMode(wd, m) ==
    << CleanWebpackPlugin,
       WasmPackPlugin([crateDirectory |-> PathResolve(wd, <<dirname, Rel(<<"..">>)>>),
                       outName |-> "ruffle",
                       forceMode |-> "production"]) >>

Plugins_NoClean(wd, m) ==
    << WasmPackPlugin([crateDirectory |-> PathResolve(wd, <<dirname, Rel(<<"..">>)>>),
                       outName |-> "ruffle",
                       forceMode |-> m]) >>

\* plugins: [ new CleanWebpackPlugin(), new WasmPackPlugin({...}) ]
Plugins(wd, m) ==
    << CleanWebpackPlugin,
       WasmPackPlugin([crateDirectory |-> PathResolve(wd, <<dirname, Rel(<<"..">>)>>),
                       outName |-> "ruffle",
                       forceMode |-> m]) >>

\* The object literal the function returns.
Config(wd, m) ==
    [entry |-> Entry(wd),
     output |-> Output(wd),
     mode |-> m,
     plugins |-> Plugins(wd, m)]

\* Files of directory dir in file system f.
FilesIn(f, dir) == {x \in f : x.dir = dir}

\* A build starts: the build tool loads the configuration file and calls
\* the exported function with (env, argv), once per build. The parameters
\* are bound, nothing is returned yet and the compiler of the new build has
\* no hooks.
Call(e, a, w) ==
    /\ pc \in {"idle", "written"}
    /\ calls < MaxCalls
    /\ calls' = calls + 1
    /\ env' = e
    /\ argv' = a
    /\ cwd' = w
    /\ mode' = ""
    /\ ret' = <<>>
    /\ hooks' = <<>>
    /\ pc' = "entered"
    /\ UNCHANGED <<dirname, fs, console, toolchain, deletions, results>>

LetMode ==
    /\ pc = "entered"
    /\ mode' = DefaultMode
    /\ pc' = "let"
    /\ UNCHANGED <<dirname, fs, calls, env, argv, cwd, console, ret, hooks,
                   toolchain, deletions, results>>

IfArgvMode ==
    /\ pc = "let"
    /\ IF ModeAccessThrows(argv)
       THEN /\ pc' = "threw"
            /\ mode' = mode
       ELSE /\ pc' = "selected"
            /\ mode' = SelectedMode(env, argv, mode)
    /\ UNCHANGED <<dirname, fs, calls, env, argv, cwd, console, ret, hooks,
                   toolchain, deletions, results>>

ConsoleLog ==
    /\ pc = "selected"
    /\ console' = Append(console, [call |-> calls, msg |-> Message(mode)])
    /\ pc' = "logged"
    /\ UNCHANGED <<dirname, fs, calls, env, argv, cwd, mode, ret, hooks,
                   toolchain, deletions, results>>

Return_EagerClean ==
    /\ pc = "logged"
    /\ ret' = <<Config(cwd, mode)>>
    /\ results' = Append(results, [call |-> calls, env |-> env, argv |-> argv,
                                   cwd |-> cwd, config |-> Config(cwd, mode)])
    /\ fs' = fs \ FilesIn(fs, Output(cwd).path.segs)
    /\ deletions' = Append(deletions, [call |-> calls, dir |-> Output(cwd).path.segs])
    /\ pc' = "returned"
    /\ UNCHANGED <<dirname, calls, env, argv, cwd, mode, console, hooks,
                   toolchain>>

\* return { entry, output, mode, plugins }; results records the call and
\* its returned value.
Return ==
    /\ pc = "logged"
    /\ ret' = <<Config(cwd, mode)>>
    /\ results' = Append(results, [call |-> calls, env |-> env, argv |-> argv,
                                   cwd |-> cwd, config |-> Config(cwd, mode)])
    /\ pc' = "returned"
    /\ UNCHANGED <<dirname, fs, calls, env, argv, cwd, mode, console, hooks,
                   toolchain, deletions>>

----------------------------------------------------------------------------
(* The hosting build tool executing the returned configuration *)

\* Writing a file replaces the file of the same name in the same directory.
WriteFiles(f, new) ==
    {x \in f : \A y \in new : ~(x.dir = y.dir /\ x.name = y.name)} \cup new

\* The per-bundle file name: [name] in the pattern stands for the entry key.
AssetName(pattern, key) ==
    IF pattern = "[name].js" THEN key \o ".js" ELSE pattern

\* The build tool registers the plugins of the configuration, in list order.
HostApplyPlugins ==
    /\ pc = "returned"
    /\ hooks' = ret[1].plugins
    /\ pc' = "applied"
    /\ UNCHANGED <<dirname, fs, calls, env, argv, cwd, mode, console, ret,
                   toolchain, deletions, results>>

\* Before compiling, each registered toolchain plugin invokes the external
\* compiler on its crate directory, which writes the companion artifact into
\* the crate's pkg directory.
HostCompile ==
    /\ pc = "applied"
    /\ LET wp == SelectSeq(hooks, LAMBDA p : p.name = "WasmPackPlugin")
       IN  /\ toolchain' = toolchain \o
                  [i \in 1..Len(wp) |->
                      [call |-> calls,
                       crateDirectory |-> wp[i].options[1].crateDirectory,
                       outName |-> wp[i].options[1].outName,
                       mode |-> wp[i].options[1].forceMode]]
           /\ fs' = WriteFiles(fs,
                  {[dir |-> wp[i].options[1].crateDirectory.segs \o <<"pkg">>,
                    name |-> wp[i].options[1].outName \o ".js",
                    build |-> calls] : i \in 1..Len(wp)})
    /\ pc' = "compiled"
    /\ UNCHANGED <<dirname, calls, env, argv, cwd, mode, console, ret, hooks,
                   deletions, results>>

\* At emission, before any asset is written, each registered cleanup plugin
\* deletes the contents of the output directory.
HostEmitHooks ==
    /\ pc = "compiled"
    /\ LET cl == SelectSeq(hooks, LAMBDA p : p.name = "CleanWebpackPlugin")
           out == ret[1].output.path.segs
       IN  IF Len(cl) > 0
           THEN /\ fs' = fs \ FilesIn(fs, out)
                /\ deletions' = Append(deletions, [call |-> calls, dir |-> out])
           ELSE UNCHANGED <<fs, deletions>>
    /\ pc' = "hooked"
    /\ UNCHANGED <<dirname, calls, env, argv, cwd, mode, console, ret, hooks,
                   toolchain, results>>

\* The build tool writes one bundle per entry and the shared chunk into
\* the output directory.
HostWriteAssets ==
    /\ pc = "hooked"
    /\ LET out == ret[1].output
           names == {AssetName(out.filename, k) : k \in DOMAIN ret[1].entry}
                        \cup {out.chunkFilename}
       IN  fs' = WriteFiles(fs, {[dir |-> out.path.segs, name |-> n,
                                  build |-> calls] : n \in names})
    /\ pc' = "written"
    /\ UNCHANGED <<dirname, calls, env, argv, cwd, mode, console, ret, hooks,
                   toolchain, deletions, results>>

----------------------------------------------------------------------------
(* Specification *)

\* The source files of the two entries, present before any build.
SourceFiles(d) ==
    {[dir |-> d.segs \o <<"js">>, name |-> n, build |-> 0] :
        n \in {"index.js", "popup.js"}}

\* What an earlier build has left in the output directory.
StaleFiles(d) ==
    {[dir |-> d.segs \o <<"build", "dist">>, name |-> n, build |-> 0] :
        n \in {"old.js", "ruffle.js"}}

Init ==
    /\ dirname \in Dirnames
    /\ fs = SourceFiles(dirname) \cup StaleFiles(dirname)
    /\ calls = 0
    /\ pc = "idle"
    /\ env = "undefined"
    /\ argv = NoArgv("undefined")
    /\ cwd = dirname
    /\ mode = ""
    /\ console = <<>>
    /\ ret = <<>>
    /\ hooks = <<>>
    /\ toolchain = <<>>
    /\ deletions = <<>>
    /\ results = <<>>

Next ==
    \/ \E e \in EnvValues, a \in ArgvValues, w \in Cwds : Call(e, a, w)
    \/ LetMode
    \/ IfArgvMode
    \/ ConsoleLog
    \/ Return
    \/ HostApplyPlugins
    \/ HostCompile
    \/ HostEmitHooks
    \/ HostWriteAssets

Spec == Init /\ [][Next]_vars

----------------------------------------------------------------------------
(* Properties *)

\* The calls that have returned, each with its inputs and returned value.
Returned == {results[i] : i \in 1..Len(results)}

\* argv carries a mode that is a non-empty string.
Supplied(a) == a.t = "object" /\ a.mode.t = "string" /\ a.mode.v # ""

\* argv is absent, or its mode is absent or the empty string.
Absent(a) ==
    \/ a.t \in {"undefined", "null"}
    \/ a.t = "object" /\ (a.mode.t = "undefined" \/ a.mode = Str(""))

\* The build-mode names the build tool knows.
KnownModes == {"development", "production", "none"}

\* The forceMode parameters of the toolchain plugins of a configuration.
ForceModes(c) ==
    {c.plugins[i].options[1].forceMode :
        i \in {j \in 1..Len(c.plugins) : c.plugins[j].name = "WasmPackPlugin"}}

\* The directory build/dist next to the configuration file.
DistDir == dirname.segs \o <<"build", "dist">>

\* The program counter values inside the configuration function.
InFunction == {"entered", "let", "selected", "logged"}

\* The messages logged by call c.
Logged(c) ==
    LET es == SelectSeq(console, LAMBDA e : e.call = c)
    IN  [i \in 1..Len(es) |-> es[i].msg]

\* What two calls must agree on: the truthy argv.mode, or its absence.
ModeKey(a) == IF Supplied(a) THEN a.mode.v ELSE ""

EndsWith(segs, suffix) ==
    /\ Len(segs) >= Len(suffix)
    /\ SubSeq(segs, Len(segs) - Len(suffix) + 1, Len(segs)) = suffix

StartsWith(segs, prefix) ==
    /\ Len(segs) >= Len(prefix)
    /\ SubSeq(segs, 1, Len(prefix)) = prefix

\* C1: when argv.mode is a non-empty string m, the returned configuration's
\* mode field equals m exactly.
C1_ModeIsArgvMode ==
    \A r \in Returned : Supplied(r.argv) => r.config.mode = r.argv.mode.v

C1_Witness ==
    \E r \in Returned : Supplied(r.argv) /\ r.argv.mode.v = "Staging"

\* C2: when argv is absent, or argv.mode is absent or the empty string, the
\* returned configuration's mode field equals "production".
C2_DefaultsToProduction ==
    \A r \in Returned : Absent(r.argv) => r.config.mode = "production"

C2_Witness ==
    \E r, q \in Returned :
        /\ r.argv.t \in {"undefined", "null"}
        /\ q.argv.t = "object" /\ q.argv.mode = Str("")

\* C3: the plugin list has exactly two elements, the cleanup plugin without
\* parameters first and the toolchain plugin second, and the second one's
\* forceMode equals the configuration's mode field, supplied or defaulted.
C3_TwoPluginsForceMode ==
    \A r \in Returned :
        /\ Len(r.config.plugins) = 2
        /\ r.config.plugins[1].name = "CleanWebpackPlugin"
        /\ r.config.plugins[1].options = <<>>
        /\ r.config.plugins[2].name = "WasmPackPlugin"
        /\ Len(r.config.plugins[2].options) = 1
        /\ r.config.plugins[2].options[1].forceMode = r.config.mode

C3_Witness ==
    \E r, q \in Returned :
        /\ Supplied(r.argv) /\ r.config.mode # "production"
        /\ Absent(q.argv)

\* C4: the entry map has exactly the keys "ruffle" and "popup", whose values
\* are absolute paths under the configuration file's directory ending with
\* js/index.js and js/popup.js, and they are the same for every working
\* directory.
C4_EntryPaths ==
    /\ \A r \in Returned :
          /\ DOMAIN r.config.entry = {"ruffle", "popup"}
          /\ r.config.entry.ruffle.abs
          /\ r.config.entry.popup.abs
          /\ r.config.entry.ruffle.segs = dirname.segs \o <<"js", "index.js">>
          /\ r.config.entry.popup.segs = dirname.segs \o <<"js", "popup.js">>
          /\ EndsWith(r.config.entry.ruffle.segs, <<"js", "index.js">>)
          /\ EndsWith(r.config.entry.popup.segs, <<"js", "popup.js">>)
    /\ \A r, q \in Returned : r.config.entry = q.config.entry

C4_Witness ==
    \E r, q \in Returned : r.cwd # q.cwd /\ r.cwd # dirname

\* C5: the output descriptor (path <config dir>/build/dist, filename
\* "[name].js", chunkFilename "core.ruffle.js", jsonpFunction
\* "RufflePlayerExtensionLoader") is the same for any two calls, whatever
\* env, argv and mode.
C5_OutputConstant ==
    /\ \A r \in Returned :
          r.config.output =
              [path |-> Abs(DistDir),
               filename |-> "[name].js",
               chunkFilename |-> "core.ruffle.js",
               jsonpFunction |-> "RufflePlayerExtensionLoader"]
    /\ \A r, q \in Returned : r.config.output = q.config.output

C5_Witness ==
    \E r, q \in Returned :
        r.env # q.env /\ r.config.mode # q.config.mode /\ r.cwd # q.cwd

\* C6 as stated: in every returned configuration the mode field, and the
\* forceMode given to the toolchain plugin, is a known build-mode name.
C6_ModeAlwaysKnown ==
    \A r \in Returned :
        /\ r.config.mode \in KnownModes
        /\ ForceModes(r.config) \subseteq KnownModes

\* C6 amended: the mode field is "production" or the truthy argv.mode
\* unchanged, so it (and forceMode) is a known build-mode name whenever
\* argv.mode is absent, empty or itself a known build-mode name.
C6_ModeKnownWhenArgvKnown ==
    \A r \in Returned :
        /\ \/ r.config.mode = "production"
           \/ Supplied(r.argv) /\ r.config.mode = r.argv.mode.v
        /\ ForceModes(r.config) = {r.config.mode}
        /\ (Absent(r.argv) \/ r.argv.mode.v \in KnownModes)
              => r.config.mode \in KnownModes

C6_Witness ==
    \E r, q \in Returned :
        /\ Supplied(r.argv) /\ r.argv.mode.v \in KnownModes
        /\ Absent(q.argv)

\* C7: deletion in the output directory and invocation of the compiler
\* toolchain never happen in a step of the configuration function; they
\* happen only after it has returned, in a step of the build tool executing
\* the returned configuration. The function's steps change the log only.
C7_EffectsOnlyAfterReturn ==
    [][/\ pc \in InFunction \cup {"idle", "written"} =>
            /\ fs' = fs
            /\ toolchain' = toolchain
            /\ deletions' = deletions
       /\ (fs' # fs \/ toolchain' # toolchain \/ deletions' # deletions) =>
            /\ ret # <<>>
            /\ pc \in {"applied", "compiled", "hooked"}]_vars

C7_Witness ==
    /\ pc = "written"
    /\ \E i \in 1..Len(deletions) : deletions[i].call = calls
    /\ \E i \in 1..Len(toolchain) : toolchain[i].call = calls
    /\ Logged(calls) # <<>>

\* C8: in a build that executes the returned configuration, the prior
\* contents of build/dist are deleted before any new artifact is written
\* there, and once the new output is written no file of a previous build
\* remains.
C8_CleanBeforeWrite ==
    /\ \A f \in FilesIn(fs, DistDir) :
          f.build >= 1 =>
              \E i \in 1..Len(deletions) :
                  deletions[i].call = f.build /\ deletions[i].dir = DistDir
    /\ pc = "written" =>
          /\ \A f \in FilesIn(fs, DistDir) : f.build = calls
          /\ {f.name : f \in FilesIn(fs, DistDir)} =
                 {"ruffle.js", "popup.js", "core.ruffle.js"}

C8_Witness ==
    /\ pc = "written"
    /\ Len(deletions) = 2
    /\ calls = 2

\* C9: the function validates nothing and has no error outcome: for every
\* env and argv it returns a complete configuration, and an unrecognised
\* truthy mode is passed unchanged to the mode field and to forceMode.
C9_NoErrorOutcome ==
    /\ pc # "threw"
    /\ pc \notin InFunction => Len(results) = calls
    /\ \A r \in Returned :
          /\ DOMAIN r.config = {"entry", "output", "mode", "plugins"}
          /\ (Supplied(r.argv) /\ r.argv.mode.v \notin KnownModes) =>
                /\ r.config.mode = r.argv.mode.v
                /\ ForceModes(r.config) = {r.argv.mode.v}

C9_Witness ==
    \E r, q \in Returned :
        /\ r.argv.t \in {"undefined", "null"}
        /\ Supplied(q.argv) /\ q.argv.mode.v \notin KnownModes

====
